---- MODULE Spec2Model ----
(***************************************************************************)
(* The personal chatbot: the relay's POST /chat handler                     *)
(* (src/backend/server.js), the browser client's chat flow                  *)
(* (src/unnamed/part_001, the frontend app.js) and the mobile drawer of     *)
(* the page (src/ui.js).                                                    *)
(*                                                                         *)
(* JavaScript values are records [t, s, n, a]: the type tag, the string     *)
(* value, the number value and the array elements.  A conversation element *)
(* is a record [role, content]; a content is [tpl, arg]: a plain text       *)
(* ("text", the text) or a generated prompt (the template's name and the    *)
(* name interpolated into it), so that the server's and the client's        *)
(* system prompts, whose wording differs, are different values.             *)
(***************************************************************************)
EXTENDS Integers, Sequences, FiniteSets, TLC

VARIABLES
  apiKey,        \* OPENROUTER_API_KEY of the relay's process ("" when not set)
  script,        \* the upstream's answers to the successive calls of a request
  relay,         \* the POST /chat request being served
  stored,        \* localStorage["personalMemory"]: the persisted name
  memory,        \* the client's memory.name
  conversation,  \* the client's transcript
  modal,         \* the name modal: whether it shows, and its input's value
  busy,          \* inputEl.disabled and sendBtn.disabled
  run,           \* the sendMessage run in progress
  timers,        \* the delays of the timers set by backoff(0), backoff(1), ...
  reqs,          \* the requests a server handles at once, by connection
  probe,         \* the last answer to GET / or GET /health
  drawer         \* the mobile drawer of ui.js and its pending callbacks

relayVars == <<apiKey, script, relay>>
clientVars == <<stored, memory, conversation, modal, busy, run, timers>>
serverVars == <<reqs, probe>>
uiVars == <<drawer>>
vars ==
  <<apiKey, script, relay, stored, memory, conversation, modal, busy, run, timers,
    reqs, probe,
    drawer>>

(* ------------------------------ bounds -------------------------------- *)

\* Longest conversation array a request carries.
MaxConv == 2

\* The turns a user takes in one page session.
MaxTurns == 2

\* The callbacks of the drawer that wait at one moment: the hide callbacks
\* of closeDrawer, and the animation frames of openDrawer.
MaxPending == 2

(* ------------------------- program constants -------------------------- *)

\* The documented retry cap of the relay and the client's cap.
MAX_RETRIES == 3

\* The base delay of backoff and the width of its jitter, in milliseconds.
BASE_MS == 1200
JITTER_MS == 300

\* The fallback of retryAfter.
RETRY_AFTER_FALLBACK == 60

(* --------------------------- JavaScript values ------------------------ *)

JsVal(t, s, n, a) == [t |-> t, s |-> s, n |-> n, a |-> a]
Undefined == JsVal("undefined", "", 0, <<>>)
Null == JsVal("null", "", 0, <<>>)
Str(x) == JsVal("string", x, 0, <<>>)
Num(k) == JsVal("number", "", k, <<>>)
Obj == JsVal("object", "", 0, <<>>)
Arr(q) == JsVal("array", "", 0, q)

\* JavaScript's ToBoolean, as !v and v || d use it.
Truthy(v) ==
  CASE v.t = "undefined" -> FALSE
    [] v.t = "null" -> FALSE
    [] v.t = "string" -> v.s # ""
    [] v.t = "number" -> v.n # 0
    [] OTHER -> TRUE

\* v || d
OrElse(v, d) == IF Truthy(v) THEN v ELSE d

Tpl(t, x) == [tpl |-> t, arg |-> x]
Text(x) == Tpl("text", x)
Turn(r, c) == [role |-> r, content |-> c]

\* The characters of a string, as the spread [...s] yields them: elements
\* that are strings have no role property.
Chars(s) ==
  CASE s = "" -> <<>>
    [] s = "ab" -> <<Turn("undefined", Text("a")), Turn("undefined", Text("b"))>>
    [] OTHER -> <<Turn("undefined", Text(s))>>

\* Whether [...v] succeeds: arrays and strings are iterable, the rest throws.
Iterable(v) == v.t \in {"array", "string"}

Spread(v) == IF v.t = "array" THEN v.a ELSE Chars(v.s)

(* ------------------------------ the relay ----------------------------- *)

\* makeSystemMessage(userName) of the server: the persona prompt with the
\* user's name interpolated.
makeSystemMessage(userName) == Turn("system", Tpl("serverPrompt", userName))

NoAnswer ==
  [kind |-> "none", status |-> 0, retryAfter |-> Null, text |-> "",
   parses |-> FALSE, reply |-> Undefined]

NoResponse ==
  [status |-> 0, error |-> Text(""), details |-> "", retryAfter |-> Undefined,
   reply |-> Undefined, conversation |-> <<>>]

\* res.status(st).json({error, details?})
ErrorResponse(st, err, det) ==
  [NoResponse EXCEPT !.status = st, !.error = err, !.details = det]

NoBody == [message |-> Undefined, conversation |-> Undefined, userName |-> Undefined]

\* A request the handler has not seen yet.
Idle ==
  [pc |-> "idle", body |-> NoBody, full |-> <<>>, auth |-> Text(""),
   calls |-> 0, nresp |-> 0, ans |-> NoAnswer, resp |-> NoResponse]

\* The Authorization header of the upstream fetch.
Authorization(key) == Tpl("Bearer ${OPENROUTER_API_KEY}", key)

\* The handler returns a response.
Respond(r, resp) == [r EXCEPT !.pc = "done", !.resp = resp, !.nresp = @ + 1]

\* A catch block that logs the error and sends nothing.
InternalErrorSilent(r, msg) == [r EXCEPT !.pc = "done"]

\* The catch block of the handler.
InternalError(r, msg) ==
  Respond(r, ErrorResponse(500, Text("Internal server error"), msg))

\* The test that guards the unshift of the system message (always unshift).
NeedsSystemAlways(spread) == TRUE

\* The test that guards the unshift of the system message.
NeedsSystem(spread) == Len(spread) = 0 \/ spread[1].role # "system"

\* fullConversation as the handler builds it from an iterable conversation.
BuildConversation(body, inbound) ==
  LET spread == Spread(inbound)
      withSystem ==
        IF NeedsSystem(spread)
        THEN <<makeSystemMessage(OrElse(body.userName, Str("Guest")).s)>> \o spread
        ELSE spread
  IN Append(withSystem, Turn("user", Text(body.message.s)))

\* The message test with the typeof check left out.
MessageInvalidFalsyOnly(message) == ~Truthy(message)

\* !message || typeof message !== 'string'
MessageInvalid(message) == ~Truthy(message) \/ message.t # "string"

\* The key test left out.
KeyMissingNever(key) == FALSE

\* !process.env.OPENROUTER_API_KEY
KeyMissing(key) == key = ""

\* POST /chat up to the await of the upstream fetch.
ChatReceive(body, key) ==
  LET r == [Idle EXCEPT !.body = body]
      message == body.message
      inbound ==
        IF body.conversation.t = "undefined" THEN Arr(<<>>) ELSE body.conversation
  IN IF MessageInvalid(message)
     THEN Respond(r, ErrorResponse(400, Text("Message is required and must be a string"), ""))
     ELSE IF KeyMissing(key)
     THEN Respond(r, ErrorResponse(500, Text("API key not configured"), ""))
     ELSE IF ~Iterable(inbound)
     THEN InternalError(r, "TypeError: conversation is not iterable")
     ELSE [r EXCEPT !.pc = "fetching",
                    !.full = BuildConversation(body, inbound),
                    !.auth = Authorization(key),
                    !.calls = @ + 1]

\* response.ok
Ok(status) == status >= 200 /\ status <= 299

\* retryAfter with ?? in place of ||: the fallback for a missing header only.
RetryAfterNullish(ans) ==
  IF ans.retryAfter.t \in {"null", "undefined"}
  THEN Num(RETRY_AFTER_FALLBACK) ELSE ans.retryAfter

\* response.headers.get('retry-after') || 60
RetryAfter(ans) == OrElse(ans.retryAfter, Num(RETRY_AFTER_FALLBACK))

\* A 429 branch that calls the upstream again, with no cap on the attempts.
RateLimitedRetry(q, ans) == [q EXCEPT !.calls = @ + 1]

\* The 429 branch of the handler.
RateLimited(q, ans) ==
  Respond(q, [NoResponse EXCEPT
    !.status = 429,
    !.error = Text("Rate limit exceeded. Please try again in a moment."),
    !.retryAfter = RetryAfter(ans)])

\* A success branch that returns the transcript without the reply's turn.
SuccessWithoutReplyTurn(q, ans) ==
  Respond(q, [NoResponse EXCEPT
    !.status = 200,
    !.reply = ans.reply,
    !.conversation = q.full])

\* The success branch of the handler: res.json({reply, conversation}).
Success(q, ans) ==
  Respond(q, [NoResponse EXCEPT
    !.status = 200,
    !.reply = ans.reply,
    !.conversation = Append(q.full, Turn("assistant", Text(ans.reply.s)))])

\* An error branch that answers 500 whatever the upstream's status.
UpstreamErrorAs500(q, ans) ==
  Respond(q, ErrorResponse(500,
    Tpl("API error: ${status}", ToString(ans.status)), ans.text))

\* An error branch that reports the headers of the request it sent.
UpstreamErrorWithHeaders(q, ans) ==
  Respond(q, ErrorResponse(ans.status,
    Tpl("API error: ${status}", ToString(ans.status)), q.auth.arg))

\* The branch of the handler for an upstream status that is neither a
\* success nor 429: the status is forwarded, with the body text as details.
UpstreamError(q, ans) ==
  Respond(q, ErrorResponse(ans.status,
    Tpl("API error: ${status}", ToString(ans.status)), ans.text))

\* A reply test that lets the empty string through.
NoReplyNullish(reply) == reply.t \in {"undefined", "null"}

\* !reply
NoReply(reply) == ~Truthy(reply)

\* POST /chat from the settling of the upstream fetch to the response.
ChatAnswer(r, ans) ==
  LET q == [r EXCEPT !.ans = ans]
  IN IF ans.kind = "reject"
     THEN InternalError(q, "fetch failed")
     ELSE IF ~Ok(ans.status)
     THEN IF ans.status = 429
          THEN RateLimited(q, ans)
          ELSE UpstreamError(q, ans)
     ELSE IF ~ans.parses
     THEN InternalError(q, "SyntaxError")
     ELSE IF NoReply(ans.reply)
     THEN Respond(q, ErrorResponse(500, Text("No reply received from AI"), ""))
     ELSE Success(q, ans)

(* ------------------------------ the client ---------------------------- *)

DEFAULT_MEMORY == [name |-> "Guest"]

\* A trim that leaves the text as it is.
TrimNothing(x) == x

\* String.prototype.trim on the texts a user types.
Trim(x) ==
  CASE x = "  " -> ""
    [] x = " Bob " -> "Bob"
    [] x = " hi " -> "hi"
    [] OTHER -> x

\* loadMemory(): the persisted memory, or the default when nothing is stored.
loadMemory(raw) == IF Truthy(raw) THEN [name |-> raw.s] ELSE DEFAULT_MEMORY

\* A system turn that greets the default name, whatever the memory holds.
makeSystemMessageForGuest(mem) == Turn("system", Tpl("clientPrompt", "Guest"))

\* makeSystemMessage(mem) of the client.
makeSystemMessageClient(mem) == Turn("system", Tpl("clientPrompt", mem.name))

\* No sendMessage run is in progress.
\* Beside the locals of sendMessage (user, attempt, reply) the record keeps
\* what the run did: text, the value of the input at the last call of
\* sendMessage since the page loaded, if there was one; pre, the transcript
\* before the turn; sent, the bodies of its requests; got, the status of each settled fetch (0: rejected); waits, the
\* arguments of its backoff calls; shown, its appendSystem messages; active,
\* the runs between their setBusy(true) and setBusy(false); flying, the
\* fetches that have not settled; turns, the turns taken since the page
\* loaded; upstream, the upstream calls the relay made for the requests of
\* the run, where a specification counts them; fresh, that the user did
\* nothing since the page loaded; named, that a name was submitted since the
\* page loaded.
NoRun ==
  [pc |-> "idle", text |-> <<>>, user |-> "", attempt |-> 0, reply |-> "",
   pre |-> <<>>, sent |-> <<>>, got |-> <<>>, waits |-> <<>>, shown |-> <<>>,
   active |-> 0, flying |-> 0, turns |-> 0, upstream |-> 0, fresh |-> TRUE,
   named |-> FALSE]

\* appendSystem(...) of sendMessage: the kind of the message and the status
\* and body text it carries.
Shown(kind, status, body) == [kind |-> kind, status |-> status, body |-> body]

\* The conversation field the request carries.
RequestConversation(conv) == conv

\* The body of the fetch of sendMessage.
RequestBody(user, conv, mem) ==
  [message |-> Str(user),
   conversation |-> Arr(RequestConversation(conv)),
   userName |-> Str(mem.name)]

\* fetch(`${BACKEND_URL}/chat`, ...): the request is on its way to the relay.
Posted(body) == [Idle EXCEPT !.pc = "posted", !.body = body]

(* ------------------------- the server's requests --------------------- *)

\* The connections over which requests reach the server at once.
Connections == {"c1", "c2"}

\* No request has come over the connection: method, Origin and body of the
\* request, the Access-Control-Allow-Origin header and the status the cors
\* middleware answers with, and the handler's record of the request.
NoRequest ==
  [method |-> "", origin |-> Undefined, body |-> NoBody,
   allowOrigin |-> Undefined, preflight |-> 0, h |-> Idle]

\* GET / and GET /health were not called.
NoProbe == [path |-> "", status |-> 0, payload |-> Text(""), timestamp |-> ""]

\* The origin option of the cors middleware.
AllowedOrigins ==
  {"http://localhost:3000", "http://localhost:8000", "http://127.0.0.1:5500",
   "http://127.0.0.1:8000", "https://vocal-vacherin-d54e9b.netlify.app"}

\* cors, configureOrigin: the Access-Control-Allow-Origin header echoes an
\* Origin of the list, and is not set for another Origin or for none.
CorsAllowOrigin(origin) ==
  IF origin.t = "string" /\ origin.s \in AllowedOrigins THEN origin ELSE Undefined

\* cors: the middleware ends a preflight itself, with 204, and calls next()
\* for a request of any other method, whatever its Origin.
CorsNext(method) == method # "OPTIONS"

\* Bindings shared by the invocations: a settled fetch resumes with those of
\* another request whose fetch is pending, when there is one.
ClosureShared(rs, c) ==
  LET others == {d \in DOMAIN rs : d # c /\ rs[d].h.pc = "fetching"}
  IN IF others = {} THEN rs[c] ELSE rs[CHOOSE d \in others : TRUE]

\* The bindings of the handler invocation that a settled fetch resumes
\* (message, fullConversation, res): those of its own request.
Closure(rs, c) == rs[c]

(* ----------------------------- the drawer ---------------------------- *)

\* The drawer before setupMobileDrawer ran: the class open of the side, the
\* inline display of the backdrop ("" while no script has set it), its
\* class show, the class no-scroll of the body, the inline display of the
\* settings button, the animation frames requested by openDrawer, and the
\* hide callbacks of closeDrawer that wait: listening, those whose
\* transitionend listener and whose timer both wait, and timedOnly, those
\* that ran on a transitionend and whose timer still waits.
NoDrawer ==
  [open |-> FALSE, display |-> "", show |-> FALSE, noScroll |-> FALSE,
   fab |-> "", frames |-> 0, listening |-> 0, timedOnly |-> 0]

\* openDrawer()
openDrawer(d) ==
  [d EXCEPT !.open = TRUE, !.display = "block", !.frames = @ + 1,
            !.noScroll = TRUE]

\* closeDrawer(): the classes go at once; hide waits for a transitionend and
\* for a timer of 250 ms.
closeDrawer(d) ==
  [d EXCEPT !.open = FALSE, !.show = FALSE, !.noScroll = FALSE,
            !.listening = @ + 1]

\* hide(): the backdrop is not displayed any more.
hide(d) == [d EXCEPT !.display = "none"]

\* syncVisibility(): the settings button shows on a mobile viewport whose
\* main content is visible; the drawer closes either way.
syncVisibility(d, mobile, mainVisible) ==
  closeDrawer([d EXCEPT !.fab = IF mobile /\ mainVisible THEN "inline-flex" ELSE "none"])

\* The callbacks that wait are fewer than the bound.
CanSchedule(d) == d.listening + d.timedOnly < MaxPending

(* ------------------------ the relay's environment --------------------- *)

\* The values of OPENROUTER_API_KEY: "" is a key that is not configured.
ApiKeys == {"", "sk-or-v1-key"}

\* What the upstream does with a call: 0 is a fetch that rejects.
Statuses == {0, 200, 429, 503}

\* The upstream's answers to the successive calls of a request.
Scripts == [1..(MAX_RETRIES + 1) -> Statuses]

\* The answers with a given status.
AnswersFor(status) ==
  CASE status = 0 ->
         {[NoAnswer EXCEPT !.kind = "reject"]}
    [] status = 429 ->
         {[NoAnswer EXCEPT !.kind = "response", !.status = 429,
                           !.retryAfter = h, !.text = "rate limited"]
            : h \in {Null, Str(""), Str("30")}}
    [] status = 200 ->
         {[NoAnswer EXCEPT !.kind = "response", !.status = 200, !.parses = TRUE,
                           !.reply = y]
            : y \in {Undefined, Str(""), Str("Hello")}}
         \cup {[NoAnswer EXCEPT !.kind = "response", !.status = 200, !.text = "<html>"]}
    [] OTHER ->
         {[NoAnswer EXCEPT !.kind = "response", !.status = status,
                           !.text = "upstream down"]}

ScriptAt(i) == IF i <= Len(script) THEN script[i] ELSE script[Len(script)]

\* The turns a caller may place in a conversation.
Turns ==
  {Turn("system", Tpl("clientPrompt", "Ann")), Turn("user", Text("q")),
   Turn("assistant", Text("a"))}

RECURSIVE SeqsUpTo(_, _)
SeqsUpTo(S, n) ==
  IF n = 0 THEN {<<>>}
  ELSE LET shorter == SeqsUpTo(S, n - 1)
       IN shorter \cup {Append(q, x) : q \in {p \in shorter : Len(p) = n - 1}, x \in S}

Messages == {Undefined, Str(""), Str("hi"), Num(5)}

Conversations ==
  {Undefined, Null, Num(7), Obj, Str("ab")} \cup {Arr(q) : q \in SeqsUpTo(Turns, MaxConv)}

UserNames == {Undefined, Str(""), Str("Ann")}

Bodies ==
  [message : Messages, conversation : Conversations, userName : UserNames]

(* ------------------------------- actions ------------------------------ *)

RelayInit ==
  /\ apiKey \in ApiKeys
  /\ script \in Scripts
  /\ relay = Idle
  /\ stored = Null
  /\ memory = loadMemory(Null)
  /\ conversation = <<makeSystemMessageClient(loadMemory(Null))>>
  /\ modal = [shown |-> TRUE, input |-> ""]
  /\ busy = FALSE
  /\ run = NoRun
  /\ timers = <<>>
  /\ reqs = [c \in Connections |-> NoRequest]
  /\ probe = NoProbe
  /\ drawer = NoDrawer

\* A caller posts a body to /chat.
Receive ==
  /\ relay.pc = "idle"
  /\ \E body \in Bodies : relay' = ChatReceive(body, apiKey)
  /\ UNCHANGED <<apiKey, script>>
  /\ UNCHANGED <<clientVars, serverVars, uiVars>>

\* The upstream fetch of the request settles.
UpstreamAnswer ==
  /\ relay.pc = "fetching"
  /\ \E ans \in AnswersFor(ScriptAt(relay.calls)) : relay' = ChatAnswer(relay, ans)
  /\ UNCHANGED <<apiKey, script>>
  /\ UNCHANGED <<clientVars, serverVars, uiVars>>

NextRelay == Receive \/ UpstreamAnswer

SpecRelay == RelayInit /\ [][NextRelay]_vars

(* --------------------------- client actions --------------------------- *)

\* What localStorage holds when the page loads.
StoredNames == {Null, Str("Ann")}

\* What a user types into the name field and into the message field.
NameInputs == {"  ", "Ann", " Bob "}
UserTexts == {"", "  ", " hi "}

\* initUI: a persisted name that is not the default pre-fills the name field.
hasValidName(mem) == mem.name # "" /\ Trim(mem.name) # "" /\ mem.name # "Guest"

\* conversation.push({ role: "user", content: user })
PushUser(conv, user) == Append(conv, Turn("user", Text(user)))

\* A push of the assistant turn that does not test the reply.
PushAssistantAlways(conv, reply) == Append(conv, Turn("assistant", Text(reply)))

\* if (reply) conversation.push({ role: "assistant", content: reply })
PushAssistant(conv, reply) ==
  IF reply # "" THEN Append(conv, Turn("assistant", Text(reply))) ELSE conv

\* A retry test that stops one attempt early.
CanRetryEarly(attempt) == attempt < MAX_RETRIES - 1

\* A retry test that never gives up.
CanRetryAlways(attempt) == TRUE

\* attempt < MAX_RETRIES
CanRetry(attempt) == attempt < MAX_RETRIES

\* The loop test of sendMessage: attempt <= MAX_RETRIES
LoopContinues(attempt) == attempt <= MAX_RETRIES

\* Controls that are never disabled.
ComposerEnabledAlways(b) == TRUE

\* setBusy(b): a disabled input and a disabled button dispatch no event.
ComposerEnabled(b) == ~b

\* A boot that skips the modal when a name was persisted.
initUISkipsModal(mem) ==
  [shown |-> ~hasValidName(mem),
   input |-> IF hasValidName(mem) THEN mem.name ELSE ""]

\* initUI: the modal shows and the chat is hidden; a persisted name only
\* pre-fills the name field.
initUI(mem) ==
  [shown |-> TRUE, input |-> IF hasValidName(mem) THEN mem.name ELSE ""]

\* The page loads: the module's top level and initUI.
ClientInit ==
  /\ apiKey \in ApiKeys
  /\ script = [i \in 1..(MAX_RETRIES + 1) |-> 200]
  /\ relay = Idle
  /\ stored \in StoredNames
  /\ memory = loadMemory(stored)
  /\ conversation = <<makeSystemMessageClient(memory)>>
  /\ modal = initUI(memory)
  /\ busy = FALSE
  /\ run = NoRun
  /\ timers = <<>>
  /\ reqs = [c \in Connections |-> NoRequest]
  /\ probe = NoProbe
  /\ drawer = NoDrawer

\* The user reloads the page: the script runs again over what localStorage
\* holds, and the answer to a request of the page that went is dropped.
Reload ==
  /\ relay' = Idle
  /\ memory' = loadMemory(stored)
  /\ conversation' = <<makeSystemMessageClient(loadMemory(stored))>>
  /\ modal' = initUI(loadMemory(stored))
  /\ busy' = FALSE
  /\ run' = NoRun
  /\ UNCHANGED <<apiKey, script, stored, timers, serverVars, uiVars>>

\* The user types into the name field of the modal.
EditName ==
  /\ modal.shown
  /\ \E v \in NameInputs : modal' = [modal EXCEPT !.input = v]
  /\ run' = [run EXCEPT !.fresh = FALSE]
  /\ UNCHANGED <<relayVars, stored, memory, conversation, busy, timers, serverVars, uiVars>>

\* startChat(): the start button, or Enter in the name field.
StartChat ==
  /\ modal.shown
  /\ LET name == Trim(modal.input)
     IN IF name = ""
        THEN /\ run' = [run EXCEPT !.fresh = FALSE]
             /\ UNCHANGED <<stored, memory, conversation, modal>>
        ELSE /\ memory' = [name |-> name]
             /\ stored' = Str(name)
             /\ conversation' =
                  [conversation EXCEPT ![1] = makeSystemMessageClient([name |-> name])]
             /\ modal' = [modal EXCEPT !.shown = FALSE]
             /\ run' = [run EXCEPT !.fresh = FALSE, !.named = TRUE]
  /\ UNCHANGED <<relayVars, busy, timers, serverVars, uiVars>>

\* A changeName that forgets the persisted name.
ChangeNameForgets ==
  /\ ~modal.shown
  /\ modal' = [shown |-> TRUE, input |-> ""]
  /\ stored' = Null
  /\ run' = [run EXCEPT !.fresh = FALSE]
  /\ UNCHANGED <<relayVars, memory, conversation, busy, timers, serverVars, uiVars>>

\* changeName(): the modal shows again, over the hidden chat.
ChangeName ==
  /\ ~modal.shown
  /\ modal' = [shown |-> TRUE, input |-> memory.name]
  /\ run' = [run EXCEPT !.fresh = FALSE]
  /\ UNCHANGED <<relayVars, stored, memory, conversation, busy, timers, serverVars, uiVars>>

\* The value of the element "mem-name" when saveMemory looks for it: the
\* page has no such element, or it holds what the user typed.
MemNameInputs == {Undefined} \cup {Str(v) : v \in NameInputs}

\* The name saveMemory keeps:
\* nameEl ? nameEl.value.trim() || DEFAULT_MEMORY.name : DEFAULT_MEMORY.name
MemName(nameEl) ==
  IF Truthy(nameEl)
  THEN OrElse(Str(Trim(nameEl.s)), Str(DEFAULT_MEMORY.name)).s
  ELSE DEFAULT_MEMORY.name

\* A saveMemory that starts the transcript over.
SaveMemoryResets ==
  /\ \E nameEl \in MemNameInputs :
       /\ stored' = Str(MemName(nameEl))
       /\ memory' = [name |-> MemName(nameEl)]
       /\ conversation' = <<makeSystemMessageClient([name |-> MemName(nameEl)])>>
  /\ run' = [run EXCEPT !.fresh = FALSE]
  /\ UNCHANGED <<relayVars, modal, busy, timers, serverVars, uiVars>>

\* A saveMemory that leaves the transcript as it is.
SaveMemoryKeepsPrompt ==
  /\ \E nameEl \in MemNameInputs :
       /\ stored' = Str(MemName(nameEl))
       /\ memory' = [name |-> MemName(nameEl)]
  /\ run' = [run EXCEPT !.fresh = FALSE]
  /\ UNCHANGED <<relayVars, conversation, modal, busy, timers, serverVars, uiVars>>

\* saveMemory(): a global function that no code of the script calls; the
\* page may call it at any moment. It touches neither the modal nor the
\* composer.
SaveMemory ==
  /\ \E nameEl \in MemNameInputs :
       LET mem == [name |-> MemName(nameEl)]
       IN /\ stored' = Str(mem.name)
          /\ memory' = mem
          /\ conversation' = [conversation EXCEPT ![1] = makeSystemMessageClient(mem)]
  /\ run' = [run EXCEPT !.fresh = FALSE]
  /\ UNCHANGED <<relayVars, modal, busy, timers, serverVars, uiVars>>

\* A chat that shows under the modal and takes the user's events.
ChatVisibleAlways(m) == TRUE

\* The main content is hidden while the modal shows (initUI, changeName) and
\* shown once it is gone (startChat): hidden controls receive no event.
ChatVisible(m) == ~m.shown

\* sendMessage() up to the await of its first fetch.
SendMessage ==
  /\ ComposerEnabled(busy)
  /\ ChatVisible(modal)
  /\ \E text \in UserTexts :
       LET user == Trim(text)
           conv == PushUser(conversation, user)
           body == RequestBody(user, conv, memory)
       IN IF user = ""
          THEN /\ run' = [run EXCEPT !.text = <<text>>, !.fresh = FALSE]
               /\ UNCHANGED <<relay, conversation, busy>>
          ELSE /\ run.turns < MaxTurns
               /\ busy' = TRUE
               /\ conversation' = conv
               /\ run' = [NoRun EXCEPT
                    !.pc = "fetch", !.text = <<text>>, !.user = user,
                    !.pre = conversation, !.sent = <<body>>,
                    !.active = run.active + 1, !.flying = run.flying + 1,
                    !.turns = run.turns + 1, !.fresh = FALSE,
                    !.named = run.named]
               /\ relay' = Posted(body)
  /\ UNCHANGED <<apiKey, script, stored, memory, modal, timers, serverVars, uiVars>>

\* The request reaches the relay's handler.
Deliver ==
  /\ relay.pc = "posted"
  /\ relay' = ChatReceive(relay.body, apiKey)
  /\ UNCHANGED <<apiKey, script, clientVars, serverVars, uiVars>>

\* The upstream fetch of the relay settles, in any way.
UpstreamSettles ==
  /\ relay.pc = "fetching"
  /\ \E st \in Statuses : \E ans \in AnswersFor(st) : relay' = ChatAnswer(relay, ans)
  /\ UNCHANGED <<apiKey, script, clientVars, serverVars, uiVars>>

\* An end of sendMessage that leaves the composer disabled.
FinishKeepsBusy(got, reply, shown) ==
  /\ conversation' = PushAssistant(conversation, reply)
  /\ busy' = busy
  /\ run' = [run EXCEPT !.pc = "idle", !.reply = reply, !.got = got,
                        !.shown = shown, !.active = @ - 1,
                        !.flying = @ - (Len(got) - Len(run.got))]

\* The end of sendMessage, after its loop.
Finish(got, reply, shown) ==
  /\ conversation' = PushAssistant(conversation, reply)
  /\ busy' = FALSE
  /\ run' = [run EXCEPT !.pc = "idle", !.reply = reply, !.got = got,
                        !.shown = shown, !.active = @ - 1,
                        !.flying = @ - (Len(got) - Len(run.got))]

\* The loop suspends in backoff(attempt).
Backoff(got, shown) ==
  /\ run' = [run EXCEPT !.pc = "backoff", !.got = got, !.shown = shown,
                        !.waits = Append(@, run.attempt),
                        !.flying = @ - (Len(got) - Len(run.got))]
  /\ UNCHANGED <<conversation, busy>>

\* A test that also takes the server errors for rate limits.
RateLimitOrServerError(status) == status = 429 \/ status >= 500

\* res.status === 429
RateLimit(status) == status = 429

\* The fetch of sendMessage resolves with the relay's response.
Response ==
  /\ run.pc = "fetch"
  /\ relay.pc = "done"
  /\ LET res == relay.resp
         got == Append(run.got, res.status)
         reply == OrElse(res.reply, Str("")).s
     IN IF RateLimit(res.status)
        THEN IF CanRetry(run.attempt)
             THEN Backoff(got, Append(run.shown, Shown("retry", 0, NoResponse)))
             ELSE Finish(got, "", Append(run.shown, Shown("rateLimited", 0, res)))
        ELSE IF ~Ok(res.status)
        THEN Finish(got, "", Append(run.shown, Shown("backendError", res.status, res)))
        ELSE IF reply = ""
        THEN Finish(got, "", Append(run.shown, Shown("noReply", 0, NoResponse)))
        ELSE Finish(got, reply, run.shown)
  /\ relay' = Idle
  /\ UNCHANGED <<apiKey, script, stored, memory, modal, timers, serverVars, uiVars>>

\* The fetch of sendMessage rejects: the request or its response is lost.
FetchRejects ==
  /\ run.pc = "fetch"
  /\ relay.pc \in {"posted", "done"}
  /\ LET got == Append(run.got, 0)
     IN IF CanRetry(run.attempt)
        THEN Backoff(got, Append(run.shown, Shown("networkRetry", 0, NoResponse)))
        ELSE Finish(got, "", Append(run.shown, Shown("networkError", 0, NoResponse)))
  /\ relay' = Idle
  /\ UNCHANGED <<apiKey, script, stored, memory, modal, timers, serverVars, uiVars>>

\* The timer of backoff fires: the loop goes on to its next attempt.
BackoffDone ==
  /\ run.pc = "backoff"
  /\ LET body == RequestBody(run.user, conversation, memory)
     IN IF LoopContinues(run.attempt + 1)
        THEN /\ run' = [run EXCEPT !.pc = "fetch", !.attempt = @ + 1,
                                   !.sent = Append(@, body),
                                   !.flying = @ + 1]
             /\ relay' = Posted(body)
             /\ UNCHANGED <<conversation, busy>>
        ELSE /\ Finish(run.got, "", run.shown)
             /\ UNCHANGED relay
  /\ UNCHANGED <<apiKey, script, stored, memory, modal, timers, serverVars, uiVars>>

Next ==
  \/ EditName
  \/ StartChat
  \/ ChangeName
  \/ SendMessage
  \/ Deliver
  \/ UpstreamSettles
  \/ Response
  \/ FetchRejects
  \/ BackoffDone
  \/ Reload

Spec == ClientInit /\ [][Next]_vars

\* The client on a page that also calls saveMemory. The upstream of such a
\* page answers every call alike, as its script says: with a completion, a
\* body without a reply or one that does not parse, or with an error;
\* requests and responses are lost as before.
MemoryStatuses == {200, 503}

MemoryInit ==
  /\ apiKey = "sk-or-v1-key"
  /\ script \in {[i \in 1..(MAX_RETRIES + 1) |-> st] : st \in MemoryStatuses}
  /\ relay = Idle
  /\ stored \in StoredNames
  /\ memory = loadMemory(stored)
  /\ conversation = <<makeSystemMessageClient(memory)>>
  /\ modal = initUI(memory)
  /\ busy = FALSE
  /\ run = NoRun
  /\ timers = <<>>
  /\ reqs = [c \in Connections |-> NoRequest]
  /\ probe = NoProbe
  /\ drawer = NoDrawer

NextMemory ==
  \/ EditName
  \/ StartChat
  \/ ChangeName
  \/ SaveMemory
  \/ SendMessage
  \/ Deliver
  \/ UpstreamAnswer
  \/ Response
  \/ FetchRejects
  \/ BackoffDone
  \/ Reload

SpecMemory == MemoryInit /\ [][NextMemory]_vars

\* The upstream calls of a step of the relay go to the account of the run
\* whose request the relay serves.
CountCalls ==
  /\ run' = [run EXCEPT !.upstream = @ + (relay'.calls - relay.calls)]
  /\ UNCHANGED <<stored, memory, conversation, modal, busy, timers>>

\* The request reaches the relay's handler, and its upstream call is counted.
DeliverCounted ==
  /\ relay.pc = "posted"
  /\ relay' = ChatReceive(relay.body, apiKey)
  /\ CountCalls
  /\ UNCHANGED <<apiKey, script, serverVars, uiVars>>

\* The upstream fetch of the relay settles, in any way, and the calls the
\* handler makes then are counted.
UpstreamSettlesCounted ==
  /\ relay.pc = "fetching"
  /\ \E st \in Statuses : \E ans \in AnswersFor(st) : relay' = ChatAnswer(relay, ans)
  /\ CountCalls
  /\ UNCHANGED <<apiKey, script, serverVars, uiVars>>

\* The client and the relay, with the upstream calls of each turn counted.
NextCalls ==
  \/ EditName
  \/ StartChat
  \/ ChangeName
  \/ SendMessage
  \/ DeliverCounted
  \/ UpstreamSettlesCounted
  \/ Response
  \/ FetchRejects
  \/ BackoffDone
  \/ Reload

SpecCalls == ClientInit /\ [][NextCalls]_vars

\* The scheduling of the browser: a posted request reaches the relay, the
\* upstream settles, every fetch resolves or rejects and every timer fires.
\* Nothing obliges the user to act.
SpecLive ==
  /\ Spec
  /\ WF_vars(Deliver)
  /\ WF_vars(UpstreamSettles)
  /\ WF_vars(Response)
  /\ WF_vars(BackoffDone)

(* ------------------------------ the server --------------------------- *)

\* The keys of a server: none, and two that differ.
ServerKeys == ApiKeys \cup {"sk-or-v1-other"}

\* The Origin header of a request: of the list, not of the list, or absent.
Origins ==
  {Str("https://vocal-vacherin-d54e9b.netlify.app"), Str("https://evil.example"),
   Undefined}

\* The bodies of the requests of a server: each names its own message.
ServerBodies ==
  {[NoBody EXCEPT !.userName = Str("Ann")],
   [message |-> Str("m1"), conversation |-> Undefined, userName |-> Undefined],
   [message |-> Str("m1"), conversation |-> Arr(<<Turn("user", Text("q1"))>>),
    userName |-> Str("Ann")],
   [message |-> Str("m2"), conversation |-> Arr(<<>>), userName |-> Str("Bob")],
   [message |-> Str("m2"),
    conversation |-> Arr(<<Turn("system", Tpl("clientPrompt", "Bob")),
                           Turn("user", Text("q2")),
                           Turn("assistant", Text("a2"))>>),
    userName |-> Str("Bob")]}

\* new Date().toISOString() at two moments.
Timestamps == {"2025-01-01T00:00:00.000Z", "2025-01-01T00:00:01.000Z"}

\* The server starts: no request yet. The client and the single relay of
\* the other specifications stay as they start.
ServerInit ==
  /\ apiKey \in ServerKeys
  /\ script = [i \in 1..(MAX_RETRIES + 1) |-> 200]
  /\ relay = Idle
  /\ stored = Null
  /\ memory = loadMemory(Null)
  /\ conversation = <<makeSystemMessageClient(loadMemory(Null))>>
  /\ modal = initUI(loadMemory(Null))
  /\ busy = FALSE
  /\ run = NoRun
  /\ timers = <<>>
  /\ reqs = [c \in Connections |-> NoRequest]
  /\ probe = NoProbe
  /\ drawer = NoDrawer

\* A request comes over a connection: cors, express.json, then for a POST
\* the handler of /chat up to its fetch.
ServerReceive(c) ==
  /\ reqs[c] = NoRequest
  /\ \E method \in {"POST", "OPTIONS"}, origin \in Origins, body \in ServerBodies :
       reqs' = [reqs EXCEPT ![c] =
         [method |-> method,
          origin |-> origin,
          body |-> body,
          allowOrigin |-> CorsAllowOrigin(origin),
          preflight |-> IF CorsNext(method) THEN 0 ELSE 204,
          h |-> IF CorsNext(method) THEN ChatReceive(body, apiKey) ELSE Idle]]
  /\ UNCHANGED <<relayVars, clientVars, probe, uiVars>>

\* The upstream fetch of a request settles and its handler resumes.
ServerAnswer(c) ==
  /\ reqs[c].h.pc = "fetching"
  /\ \E status \in Statuses : \E ans \in AnswersFor(status) :
       reqs' = [reqs EXCEPT ![c].h = ChatAnswer(Closure(reqs, c).h, ans)]
  /\ UNCHANGED <<relayVars, clientVars, probe, uiVars>>

\* res.status(200) of GET /health that depends on the key.
HealthStatusByKey(key) == IF KeyMissing(key) THEN 503 ELSE 200

\* res.status(200) of GET /health, and the default status of res.json.
HealthStatus(key) == 200

\* GET /
GetRoot ==
  /\ \E t \in Timestamps :
       probe' = [path |-> "/", status |-> HealthStatus(apiKey),
                 payload |-> Text("Backend is running"), timestamp |-> t]
  /\ UNCHANGED <<relayVars, clientVars, reqs, uiVars>>

\* GET /health
GetHealth ==
  /\ probe' = [path |-> "/health", status |-> HealthStatus(apiKey),
               payload |-> Text("OK"), timestamp |-> ""]
  /\ UNCHANGED <<relayVars, clientVars, reqs, uiVars>>

NextServer ==
  \/ \E c \in Connections : ServerReceive(c)
  \/ \E c \in Connections : ServerAnswer(c)
  \/ GetRoot
  \/ GetHealth

SpecServer == ServerInit /\ [][NextServer]_vars

(* ------------------------- the delays of backoff ---------------------- *)

\* Math.random(): a number of [0, 1), in thousandths.
Randoms == {0, 1, 250, 500, 750, 999}

\* A backoff whose base grows with the attempt but does not double.
backoffLinear(attempt, random) ==
  BASE_MS * (attempt + 1) + (random * JITTER_MS) \div 1000

\* backoff(attempt): the delay handed to sleep, in whole milliseconds.
backoffDelay(attempt, random) ==
  LET base == BASE_MS * 2 ^ attempt
      jitter == (random * JITTER_MS) \div 1000
  IN base + jitter

\* The backoff calls of one run of sendMessage, which passes its attempt
\* index 0, 1, 2 in turn; each call draws its own random number.
BackoffInit ==
  /\ ClientInit
  /\ apiKey = "sk-or-v1-key"
  /\ stored = Null

Sleep ==
  /\ CanRetry(Len(timers))
  /\ \E random \in Randoms :
       timers' = Append(timers, backoffDelay(Len(timers), random))
  /\ UNCHANGED <<relayVars, stored, memory, conversation, modal, busy, run, serverVars, uiVars>>

NextBackoff == Sleep

SpecBackoff == BackoffInit /\ [][NextBackoff]_vars

(* --------------------------- drawer actions -------------------------- *)

\* The keys of a keyboard.
Keys == {"Escape", "Enter"}

\* The page has loaded and setupMobileDrawer has run: its syncVisibility
\* closed the drawer, whose hide callback waits. The chat and the servers
\* stay as they start.
DrawerInit ==
  /\ apiKey = "sk-or-v1-key"
  /\ script = [i \in 1..(MAX_RETRIES + 1) |-> 200]
  /\ relay = Idle
  /\ stored = Null
  /\ memory = loadMemory(Null)
  /\ conversation = <<makeSystemMessageClient(loadMemory(Null))>>
  /\ modal = initUI(loadMemory(Null))
  /\ busy = FALSE
  /\ run = NoRun
  /\ timers = <<>>
  /\ reqs = [c \in Connections |-> NoRequest]
  /\ probe = NoProbe
  /\ \E mobile \in BOOLEAN, mainVisible \in BOOLEAN :
       drawer = syncVisibility(NoDrawer, mobile, mainVisible)

\* A click on the settings button, which takes clicks while it shows.
FabClick ==
  /\ drawer.fab = "inline-flex"
  /\ IF drawer.open
     THEN CanSchedule(drawer) /\ drawer' = closeDrawer(drawer)
     ELSE drawer.frames < MaxPending /\ drawer' = openDrawer(drawer)
  /\ UNCHANGED <<relayVars, clientVars, serverVars>>

\* A click on the backdrop, which takes clicks while it is displayed.
BackdropClick ==
  /\ drawer.display = "block"
  /\ CanSchedule(drawer)
  /\ drawer' = closeDrawer(drawer)
  /\ UNCHANGED <<relayVars, clientVars, serverVars>>

\* A click on the close button of the side.
CloseClick ==
  /\ CanSchedule(drawer)
  /\ drawer' = closeDrawer(drawer)
  /\ UNCHANGED <<relayVars, clientVars, serverVars>>

\* A key goes down anywhere in the document.
KeyDown ==
  /\ CanSchedule(drawer)
  /\ \E key \in Keys :
       drawer' = IF key = "Escape" THEN closeDrawer(drawer) ELSE drawer
  /\ UNCHANGED <<relayVars, clientVars, serverVars>>

\* resize, orientationchange, or a change of the main content's style or
\* class: syncVisibility runs.
Resize ==
  /\ CanSchedule(drawer)
  /\ \E mobile \in BOOLEAN, mainVisible \in BOOLEAN :
       drawer' = syncVisibility(drawer, mobile, mainVisible)
  /\ UNCHANGED <<relayVars, clientVars, serverVars>>

\* An animation frame requested by openDrawer comes.
Frame ==
  /\ drawer.frames > 0
  /\ drawer' = [drawer EXCEPT !.frames = @ - 1, !.show = TRUE]
  /\ UNCHANGED <<relayVars, clientVars, serverVars>>

\* A transition of the backdrop ends: every hide that listens runs and
\* removes its listener; its timer goes on waiting.
TransitionEnd ==
  /\ drawer.listening > 0
  /\ drawer' = [hide(drawer) EXCEPT !.listening = 0,
                                    !.timedOnly = @ + drawer.listening]
  /\ UNCHANGED <<relayVars, clientVars, serverVars>>

\* A timer of 250 ms fires: its hide runs, and removes its listener when it
\* still listens.
Timeout ==
  /\ \/ /\ drawer.listening > 0
        /\ drawer' = [hide(drawer) EXCEPT !.listening = @ - 1]
     \/ /\ drawer.timedOnly > 0
        /\ drawer' = [hide(drawer) EXCEPT !.timedOnly = @ - 1]
  /\ UNCHANGED <<relayVars, clientVars, serverVars>>

NextDrawer ==
  \/ FabClick
  \/ BackdropClick
  \/ CloseClick
  \/ KeyDown
  \/ Resize
  \/ Frame
  \/ TransitionEnd
  \/ Timeout

SpecDrawer == DrawerInit /\ [][NextDrawer]_vars

(* ---------------------- properties of the relay ----------------------- *)

\* The message of a body is a non-empty string.
MessageIsText(b) == b.message.t = "string" /\ b.message.s # ""

\* The handler issued its upstream fetch.
Fetched == relay.calls >= 1

\* The turns of the inbound conversation: none when the field is absent.
InboundTurns(b) == IF b.conversation.t = "array" THEN b.conversation.a ELSE <<>>

\* The inbound conversation is a sequence of turns (or absent).
ConversationIsSequence(b) == b.conversation.t \in {"array", "undefined"}

SuccessPayload(r) ==
  /\ r.resp.status = 200
  /\ r.resp.reply = r.ans.reply
  /\ r.resp.conversation = Append(r.full, Turn("assistant", Text(r.ans.reply.s)))

\* C1: when the upstream answers 429 to the first two calls of a request and
\* 200 to the third, the relay makes exactly 3 upstream calls and answers
\* with the success payload of the third answer; and a request is answered
\* 429 only once the MAX_RETRIES retries are used up.
C1_RetriesOn429 ==
  /\ (relay.pc = "done" /\ Fetched
        /\ script[1] = 429 /\ script[2] = 429 /\ script[3] = 200)
       => /\ relay.calls = 3
          /\ (relay.ans.parses /\ Truthy(relay.ans.reply)) => SuccessPayload(relay)
  /\ (relay.pc = "done" /\ relay.ans.status = 429)
       => relay.calls = MAX_RETRIES + 1

\* C2: a request never causes more than MAX_RETRIES + 1 upstream calls.
C2_AtMostFourUpstreamCalls == relay.calls <= MAX_RETRIES + 1

\* A request whose upstream call was answered 429 has been answered.
C2_Witness == relay.pc = "done" /\ relay.calls = 1 /\ relay.ans.status = 429

\* The upstream answers 429 to every call the relay may make for the request.
AlwaysRateLimited == \A i \in 1..(MAX_RETRIES + 1) : script[i] = 429

\* C3 (as stated): when every call is answered 429 the relay answers 429
\* with retryAfter the upstream's retry-after header when the header is
\* present, 60 otherwise.
C3_RetryAfterWhenPresent ==
  (relay.pc = "done" /\ Fetched /\ AlwaysRateLimited)
    => /\ relay.resp.status = 429
       /\ relay.resp.retryAfter =
            IF relay.ans.retryAfter.t = "string"
            THEN relay.ans.retryAfter ELSE Num(RETRY_AFTER_FALLBACK)

\* C3 (amended): when every call is answered 429 the relay answers 429 with
\* retryAfter the upstream's retry-after header when the header is present
\* and not empty, 60 when it is absent or empty.
C3_RetryAfterWhenNonEmpty ==
  (relay.pc = "done" /\ Fetched /\ AlwaysRateLimited)
    => /\ relay.resp.status = 429
       /\ relay.resp.retryAfter =
            IF relay.ans.retryAfter.t = "string" /\ relay.ans.retryAfter.s # ""
            THEN relay.ans.retryAfter ELSE Num(RETRY_AFTER_FALLBACK)

\* A rate-limited request answered from an empty retry-after header.
C3_Witness ==
  /\ relay.pc = "done" /\ Fetched /\ AlwaysRateLimited
  /\ relay.ans.retryAfter = Str("")
  /\ relay.resp.retryAfter = Num(RETRY_AFTER_FALLBACK)

\* C4: a request whose message is absent, empty or not a string is answered
\* 400 without any upstream call, whatever its other fields and the key.
C4_BadMessageIs400 ==
  (relay.pc # "idle" /\ ~MessageIsText(relay.body))
    => /\ relay.pc = "done"
       /\ relay.resp.status = 400
       /\ relay.calls = 0

\* A numeric message on a server with no key, with a conversation that is
\* no sequence, is answered 400.
C4_Witness ==
  /\ relay.pc = "done" /\ relay.body.message = Num(5)
  /\ relay.body.conversation = Null /\ apiKey = ""
  /\ relay.resp.status = 400

\* C5: a request with a valid message and a conversation that is present
\* and is no array is answered 400 with an error body, without any upstream
\* call (stated for a relay whose key is configured, where no other test
\* of the handler answers first).
C5_BadConversationIs400 ==
  (relay.pc # "idle" /\ MessageIsText(relay.body) /\ apiKey # ""
     /\ ~ConversationIsSequence(relay.body))
    => /\ relay.pc = "done"
       /\ relay.resp.status = 400
       /\ relay.resp.error # Text("")
       /\ relay.calls = 0

\* C6: with no key configured a request with a valid message is answered
\* 500 at once, without any upstream call.
C6_MissingKeyIs500 ==
  (relay.pc # "idle" /\ MessageIsText(relay.body) /\ apiKey = "")
    => /\ relay.pc = "done"
       /\ relay.resp.status = 500
       /\ relay.resp.error = Text("API key not configured")
       /\ relay.calls = 0

\* A valid request answered 500 for the missing key.
C6_Witness ==
  /\ relay.pc = "done" /\ MessageIsText(relay.body) /\ apiKey = ""
  /\ relay.body.conversation.t = "array" /\ relay.resp.status = 500

\* The transcript sent upstream is the inbound conversation and the new user
\* turn, after one system turn of the server for `name` unless the inbound
\* conversation starts with a system turn.
PersonaInjected(name) ==
  LET c == InboundTurns(relay.body)
      u == Turn("user", Text(relay.body.message.s))
  IN IF Len(c) > 0 /\ c[1].role = "system"
     THEN relay.full = Append(c, u)
     ELSE relay.full = <<Turn("system", Tpl("serverPrompt", name))>> \o Append(c, u)

\* C7 (as stated): the system turn is prepended exactly when the inbound
\* conversation does not start with one, and it names userName, or Guest
\* when userName is absent.
C7_GuestWhenAbsent ==
  (Fetched /\ ConversationIsSequence(relay.body))
    => PersonaInjected(IF relay.body.userName.t = "undefined"
                       THEN "Guest" ELSE relay.body.userName.s)

\* C7 (amended): the system turn is prepended exactly when the inbound
\* conversation does not start with one, and it names userName, or Guest
\* when userName is absent or empty.
C7_GuestWhenAbsentOrEmpty ==
  (Fetched /\ ConversationIsSequence(relay.body))
    => PersonaInjected(IF relay.body.userName.t = "string" /\ relay.body.userName.s # ""
                       THEN relay.body.userName.s ELSE "Guest")

\* A conversation that starts with a system turn was sent upstream.
C7_Witness ==
  /\ Fetched
  /\ relay.body.conversation.t = "array"
  /\ Len(relay.body.conversation.a) = 2
  /\ relay.body.conversation.a[1].role = "system"
  /\ Len(relay.full) = 3

SystemTurns(q) == {i \in DOMAIN q : q[i].role = "system"}

\* C8: the transcript sent upstream starts with a system turn and holds
\* exactly one system turn.
C8_ExactlyOneSystemTurn ==
  (Fetched /\ ConversationIsSequence(relay.body))
    => /\ relay.full[1].role = "system"
       /\ Cardinality(SystemTurns(relay.full)) = 1

\* C9: the system turn of every upstream call is the one the relay
\* generates from its persona profile.
C9_SystemTurnIsTheRelays ==
  (Fetched /\ ConversationIsSequence(relay.body))
    => /\ relay.full[1].role = "system"
       /\ \A i \in SystemTurns(relay.full) : relay.full[i].content.tpl = "serverPrompt"

\* The upstream answered 200 with a body that parses and holds a reply.
UsableReply(ans) ==
  ans.kind = "response" /\ ans.status = 200 /\ ans.parses /\ Truthy(ans.reply)

Roles(q) == [i \in DOMAIN q |-> q[i].role]

\* C11: when the upstream answers 200 with a usable reply the relay answers
\* 200 with that reply and with the transcript it sent upstream followed by
\* one assistant turn holding the reply; when the inbound conversation is
\* empty the upstream was called once and the returned conversation is a
\* system turn, the user turn and the assistant turn, the system turn naming
\* Guest when userName is absent.
C11_SuccessPayload ==
  (relay.pc = "done" /\ Fetched /\ UsableReply(relay.ans))
    => /\ relay.resp.status = 200
       /\ relay.resp.reply = relay.ans.reply
       /\ relay.resp.conversation =
            relay.full \o <<Turn("assistant", Text(relay.ans.reply.s))>>
       /\ relay.body.conversation = Arr(<<>>)
            => /\ relay.calls = 1
               /\ Roles(relay.resp.conversation) = <<"system", "user", "assistant">>
               /\ relay.resp.conversation[2] =
                    Turn("user", Text(relay.body.message.s))
               /\ relay.body.userName = Undefined
                    => relay.resp.conversation[1] =
                         Turn("system", Tpl("serverPrompt", "Guest"))

C11_Witness ==
  /\ relay.pc = "done"
  /\ UsableReply(relay.ans)
  /\ relay.body.conversation = Arr(<<>>)
  /\ relay.body.userName = Undefined
  /\ Len(relay.resp.conversation) = 3

\* The upstream answered with a status that is neither a success nor 429.
UpstreamFailed(ans) ==
  /\ ans.kind = "response"
  /\ ans.status # 429
  /\ ans.status < 200 \/ ans.status > 299

\* C25: when the upstream answers with a status that is neither a success
\* nor 429 the relay answers the caller with that status and an error body
\* that carries the text of the upstream's body, after its one upstream
\* call.
C25_UpstreamErrorIsForwarded ==
  (relay.pc = "done" /\ Fetched /\ UpstreamFailed(relay.ans))
    => /\ relay.resp.status = relay.ans.status
       /\ relay.resp.error = Tpl("API error: ${status}", ToString(relay.ans.status))
       /\ relay.resp.details = relay.ans.text
       /\ relay.resp.reply = Undefined
       /\ relay.calls = 1
       /\ relay.nresp = 1

C25_Witness ==
  /\ relay.pc = "done"
  /\ relay.ans.status = 503
  /\ relay.resp.status = 503
  /\ relay.resp.details = "upstream down"

\* The upstream answered 200 with a body that does not parse, or that
\* parses and holds no reply or an empty one.
NoUsableReply(ans) ==
  /\ ans.kind = "response"
  /\ ans.status = 200
  /\ ~ans.parses \/ ans.reply \in {Undefined, Null, Str("")}

\* C26: when the upstream answers 200 and its body does not parse, or holds
\* no reply or an empty one, the relay answers 500 without a reply and
\* without a conversation, after its one upstream call.
C26_NoUsableReplyIs500 ==
  (relay.pc = "done" /\ Fetched /\ NoUsableReply(relay.ans))
    => /\ relay.resp.status = 500
       /\ relay.resp.reply = Undefined
       /\ relay.resp.conversation = <<>>
       /\ relay.calls = 1
       /\ relay.nresp = 1

\* An empty reply, and a body that does not parse.
C26_Witness ==
  /\ relay.pc = "done"
  /\ relay.ans.status = 200
  /\ relay.resp.status = 500
  /\ \/ relay.ans.parses /\ relay.ans.reply = Str("")
     \/ ~relay.ans.parses /\ relay.resp.error = Text("Internal server error")

\* The handler threw inside its try block: the conversation could not be
\* spread, the upstream fetch rejected, or the upstream body did not parse.
Threw(r) ==
  /\ r.pc = "done"
  /\ \/ r.calls = 0 /\ ~MessageInvalid(r.body.message) /\ ~KeyMissing(apiKey)
     \/ r.calls = 1 /\ r.ans.kind = "reject"
     \/ r.calls = 1 /\ r.ans.kind = "response" /\ Ok(r.ans.status) /\ ~r.ans.parses

\* C31: a request that reached the handler of POST /chat has no response
\* while the handler runs or awaits the upstream, and exactly one response
\* once the handler ended, whatever the path it took: a bad message, a
\* missing key, an upstream 429, another upstream error, a missing reply, a
\* success or an exception caught by the catch block.
C31_ExactlyOneResponse ==
  /\ relay.nresp <= 1
  /\ relay.pc \in {"idle", "fetching"} => relay.nresp = 0 /\ relay.resp = NoResponse
  /\ relay.pc = "done" => relay.nresp = 1 /\ relay.resp.status \in {200, 400, 429, 500, 503}
  /\ Threw(relay) => relay.resp.error = Text("Internal server error")

\* The upstream fetch rejected and the catch block answered, once.
C31_Witness ==
  /\ Threw(relay)
  /\ relay.ans.kind = "reject"
  /\ relay.nresp = 1
  /\ relay.resp.status = 500

(* ---------------------- properties of the client ---------------------- *)

\* A request of the current sendMessage run is with the relay.
InFlight == run.pc = "fetch" /\ relay.pc # "idle"

\* The places of a transcript that hold the user turn of the current run.
NewMessageAt(q) == {i \in DOMAIN q : q[i] = Turn("user", Text(run.user))}

\* C10: the conversation field of every request of sendMessage is the
\* transcript as it was before the turn, without the new message, and the
\* transcript the relay forwards holds the new user message once more than
\* the transcript before the turn did.
C10_NewMessageNotInConversation ==
  InFlight =>
    /\ Len(relay.body.conversation.a) = Len(run.pre)
    /\ NewMessageAt(relay.body.conversation.a) = NewMessageAt(run.pre)
    /\ Fetched =>
         Cardinality(NewMessageAt(relay.full)) = Cardinality(NewMessageAt(run.pre)) + 1

\* A turn was started since the page loaded, and its run is over.
TurnOver == run.pc = "idle" /\ run.sent # <<>>

\* The run of sendMessage in progress, or the last one.
TurnStarted == run.sent # <<>>

\* What sendMessage did to the transcript: it appended the turns x to the
\* transcript of before the turn and changed none of the turns after the
\* first (the first is the system turn, which startChat rewrites).
TurnAppended(x) ==
  /\ Len(conversation) = Len(run.pre) + Len(x)
  /\ \A i \in 2..Len(run.pre) : conversation[i] = run.pre[i]
  /\ \A i \in 1..Len(x) : conversation[Len(run.pre) + i] = x[i]

\* The last fetch of the run was answered 200 with a reply that is not empty.
ReplyObtained ==
  /\ run.got # <<>>
  /\ run.got[Len(run.got)] = 200
  /\ run.reply # ""

\* C12: a run of sendMessage on an input that is not empty once trimmed has
\* appended exactly the user turn to the transcript while its requests are
\* issued; once it is over it has appended the user turn and the assistant
\* turn of the reply if a reply that is not empty was obtained, and the user
\* turn alone otherwise.
C12_OneUserTurnOneAssistantTurn ==
  /\ TurnStarted => run.user # ""
  /\ (TurnStarted /\ run.pc # "idle")
       => TurnAppended(<<Turn("user", Text(run.user))>>)
  /\ TurnOver
       => IF ReplyObtained
          THEN TurnAppended(<<Turn("user", Text(run.user)),
                              Turn("assistant", Text(run.reply))>>)
          ELSE /\ TurnAppended(<<Turn("user", Text(run.user))>>)
               /\ run.reply = ""

\* A turn failed after another succeeded, and a turn succeeded.
C12_Witness ==
  /\ TurnOver
  /\ ~ReplyObtained
  /\ Len(run.pre) = 3
  /\ run.pre[3].role = "assistant"
  /\ Len(conversation) = 4

\* Texts that are empty or hold white space only.
Blank(text) == text \in {"", "  "}

\* sendMessage was called on the text, whatever it was called on before.
CalledOn(text) == run'.text = <<text>> /\ run'.text # run.text

\* C13: a call of sendMessage on an input that is empty or holds white space
\* only leaves the transcript as it is, issues no request and does not
\* disable the input.
C13_BlankInputIsIgnored ==
  [][(\E text \in UserTexts : Blank(text) /\ CalledOn(text))
       => /\ conversation' = conversation
          /\ relay' = relay
          /\ run'.sent = run.sent
          /\ busy' = busy
          /\ ~busy']_vars

\* sendMessage was called on white space after a turn, and did nothing.
C13_Witness ==
  /\ run.text = <<"  ">>
  /\ run.pc = "idle"
  /\ Len(conversation) = 3
  /\ ~busy

\* The fetches of the run settled so far were all answered 429.
AllRateLimited == \A i \in DOMAIN run.got : run.got[i] = 429

\* The arguments of the first n backoff calls of a run.
AttemptIndexes(n) == [i \in 1..n |-> i - 1]

LastShown == run.shown[Len(run.shown)]

\* C14: while the relay answers 429 the client sends its request again, up
\* to MAX_RETRIES more times, each time after a backoff called with the
\* attempt index 0, 1, 2 in turn; when the fourth answer is 429 too it shows
\* the rate-limit message with the answer's text and sends nothing more.
C14_RetriesOn429 ==
  (TurnStarted /\ AllRateLimited) =>
    /\ Len(run.got) <= MAX_RETRIES + 1
    /\ run.pc = "backoff"
         => /\ Len(run.got) <= MAX_RETRIES
            /\ Len(run.sent) = Len(run.got)
            /\ run.waits = AttemptIndexes(Len(run.got))
    /\ run.pc = "fetch"
         => /\ Len(run.sent) = Len(run.got) + 1
            /\ run.waits = AttemptIndexes(Len(run.got))
    /\ run.pc = "idle"
         => /\ Len(run.got) = MAX_RETRIES + 1
            /\ Len(run.sent) = MAX_RETRIES + 1
            /\ run.waits = AttemptIndexes(MAX_RETRIES)
            /\ LastShown.kind = "rateLimited"
            /\ LastShown.body.status = 429
            /\ \A i \in 1..MAX_RETRIES : run.shown[i].kind = "retry"

\* Four answers of 429: the turn is over with the rate-limit message.
C14_Witness ==
  /\ TurnOver
  /\ AllRateLimited
  /\ Len(run.sent) = MAX_RETRIES + 1
  /\ LastShown.kind = "rateLimited"

\* A status of a relay's answer that is neither a success nor 429.
BackendError(status) ==
  status # 0 /\ status # 429 /\ (status < 200 \/ status > 299)

\* The messages of the run that report a backend error.
BackendErrorsShown == {i \in DOMAIN run.shown : run.shown[i].kind = "backendError"}

\* C15: an answer of the relay whose status is neither a success nor 429
\* ends the turn at once, at whatever attempt it comes: the client shows one
\* message that carries the status and the body of the answer, waits for no
\* backoff and sends no further request.
C15_BackendErrorEndsTheTurn ==
  \A i \in DOMAIN run.got :
    BackendError(run.got[i]) =>
      /\ i = Len(run.got)
      /\ run.pc = "idle"
      /\ Len(run.sent) = i
      /\ Len(run.waits) = i - 1
      /\ BackendErrorsShown = {Len(run.shown)}
      /\ LastShown.status = run.got[i]
      /\ LastShown.body.status = run.got[i]
      /\ LastShown.body.error # Undefined
      /\ run.reply = ""

\* A backend error came as the answer to a retry.
C15_Witness ==
  /\ TurnOver
  /\ Len(run.got) = 3
  /\ run.got[1] = 429
  /\ run.got[2] = 0
  /\ BackendError(run.got[3])
  /\ LastShown.kind = "backendError"

\* The fetches of the run that failed in a way the client retries.
Retried(status) == status = 0 \/ status = 429

\* C16: a fetch that rejects is retried after a backoff, under the cap it
\* shares with the retries on 429: whatever the mix of rejections and 429
\* answers a turn sends at most MAX_RETRIES + 1 requests, one backoff before
\* each but the first, and when the last of them rejects the client shows
\* the network-error message and the turn is over.
C16_NetworkFailuresShareTheCap ==
  TurnStarted =>
    /\ Len(run.sent) <= MAX_RETRIES + 1
    /\ Len(run.got) <= Len(run.sent)
    /\ \A i \in DOMAIN run.got :
         (i <= MAX_RETRIES /\ Retried(run.got[i]))
           => /\ Len(run.waits) >= i
              /\ run.waits[i] = i - 1
              /\ run.pc = "backoff" \/ Len(run.sent) > i
    /\ \A i \in 2..Len(run.sent) : Retried(run.got[i - 1])
    /\ (Len(run.got) = MAX_RETRIES + 1 /\ run.got[MAX_RETRIES + 1] = 0)
         => /\ run.pc = "idle"
            /\ LastShown.kind = "networkError"
            /\ Len(run.waits) = MAX_RETRIES
            /\ run.reply = ""

\* Rejections and 429 answers mixed, and the last allowed fetch rejected.
C16_Witness ==
  /\ TurnOver
  /\ run.got = <<0, 429, 0, 0>>
  /\ Len(run.sent) = MAX_RETRIES + 1
  /\ LastShown.kind = "networkError"

\* C17: whatever the user does and whenever the network answers, at most
\* one run of sendMessage is in progress and at most one of its requests is
\* in flight, and the input and the send button are disabled from the start
\* of a turn to its end.
C17_SingleFlight ==
  /\ run.active <= 1
  /\ run.flying <= 1
  /\ busy <=> run.active = 1
  /\ run.active = 1 <=> run.pc # "idle"
  /\ run.flying = 1 <=> run.pc = "fetch"
  /\ relay.pc # "idle" => run.flying = 1

\* The name modal was opened and a name submitted while the request of the
\* second turn is with the relay.
C17_Witness ==
  /\ run.turns = 2
  /\ run.flying = 1
  /\ relay.pc = "fetching"
  /\ busy
  /\ memory.name = "Bob"
  /\ run.sent[1].userName = Str("Ann")

\* C18: when every fetch settles and every backoff timer fires, a run of
\* sendMessage that disabled the input comes to its end and enables it
\* again, whatever the answers to its requests.
C18_TurnTerminates == (busy /\ run.pc # "idle") ~> (~busy /\ run.pc = "idle")

\* A turn came to its end after its retries were used up, composer enabled.
C18_Witness ==
  /\ TurnOver
  /\ ~busy
  /\ Len(run.got) = MAX_RETRIES + 1
  /\ Retried(run.got[MAX_RETRIES + 1])
  /\ Len(run.waits) = MAX_RETRIES

\* C19: the delay of the backoff call with attempt index k, for k in 0..2,
\* lies between 1200 * 2^k and 1200 * 2^k + 300 milliseconds, and the delays
\* do not decrease with k: any delay drawn at an index is at least any delay
\* drawn at a lower index.
C19_BackoffDelays ==
  /\ \A i \in DOMAIN timers :
       /\ timers[i] >= 1200 * 2 ^ (i - 1)
       /\ timers[i] <= 1200 * 2 ^ (i - 1) + 300
  /\ \A i, j \in DOMAIN timers : i < j => timers[i] <= timers[j]

\* The longest delay at index 0, the shortest at 1 and the longest at 2.
C19_Witness == timers = <<1499, 2400, 5099>>

\* The name the modal's field holds after a page load.
Prefilled == IF stored = Null THEN "" ELSE stored.s

\* C20: after every page load the name modal shows and the chat is hidden,
\* whether or not a name is persisted, and a persisted name only fills the
\* name field; the modal goes, and the chat shows, only when the user
\* submits a name that is not empty.
C20_StartsUnnamed ==
  /\ [](run.fresh
         => /\ modal.shown
            /\ modal.input = Prefilled
            /\ conversation = <<makeSystemMessageClient(memory)>>
            /\ ~busy)
  /\ [][(modal.shown /\ ~modal'.shown)
          => /\ Trim(modal.input) # ""
             /\ memory'.name = Trim(modal.input)
             /\ stored' = Str(memory'.name)]_vars

\* The page was loaded again over a name that an earlier session persisted.
C20_Witness ==
  /\ run.fresh
  /\ stored = Str("Bob")
  /\ memory.name = "Bob"
  /\ modal.shown
  /\ modal.input = "Bob"

\* The turns of a transcript after its first.
Rest(q) == SubSeq(q, 2, Len(q))

\* C21: a call of startChat on a name that is not empty once trimmed hides
\* the modal and shows the chat and, in the same step, persists the trimmed
\* name and puts a system turn that embeds it in the first place of the
\* transcript, whose other turns stay; a call on a name that is empty or
\* white space leaves the modal, the persisted name and the transcript as
\* they are.
C21_NameSubmission ==
  [][StartChat
      => IF Trim(modal.input) # ""
         THEN /\ ~modal'.shown
              /\ stored' = Str(Trim(modal.input))
              /\ memory' = [name |-> Trim(modal.input)]
              /\ conversation'[1] =
                   Turn("system", Tpl("clientPrompt", Trim(modal.input)))
              /\ Rest(conversation') = Rest(conversation)
         ELSE /\ modal' = modal
              /\ stored' = stored
              /\ memory' = memory
              /\ conversation' = conversation]_vars

\* A second name was submitted after a turn: the turn's entries stay under
\* the new system turn.
C21_Witness ==
  /\ ~modal.shown
  /\ stored = Str("Bob")
  /\ conversation[1] = Turn("system", Tpl("clientPrompt", "Bob"))
  /\ Len(conversation) = 3
  /\ run.sent[1].userName = Str("Ann")

\* The modal shows again in a step that is not a page load.
BackToUnnamed == ~modal.shown /\ modal'.shown /\ ~run'.fresh

Issues == run'.flying > run.flying

\* C23 (as stated): whenever a request is issued to the relay, first attempt
\* or retry, a name has been submitted and the name modal is not showing.
C23_RequestsOnlyWhileNamed ==
  [][Issues => (run.named /\ ~modal.shown /\ ~modal'.shown)]_vars

\* C23 (amended): whenever a request is issued to the relay a name has been
\* submitted since the page loaded, and when the first request of a turn is
\* issued the name modal is not showing; a retry is issued whether or not
\* the modal shows.
C23_NameBeforeChatting ==
  [][Issues
      => /\ run.named
         /\ run'.named
         /\ run'.turns > run.turns => (~modal.shown /\ ~modal'.shown)]_vars

\* A retry is with the relay while the modal shows.
C23_Witness ==
  /\ run.named
  /\ modal.shown
  /\ run.pc = "fetch"
  /\ run.attempt >= 1
  /\ relay.pc = "posted"

\* The kinds of the messages that tell the user a turn failed.
ErrorKinds == {"rateLimited", "backendError", "noReply", "networkError"}

\* The turn is over and it added no assistant entry to the transcript.
TurnFailed ==
  /\ TurnOver
  /\ conversation[Len(conversation)].role # "assistant"

\* C24: a turn that ends without an assistant entry has passed a message
\* of failure to appendSystem, as the last of its messages, by the time the
\* input is enabled again; and a run whose retries are used up, or that got
\* a status it does not retry on, is over.
C24_FailedTurnShowsAnError ==
  /\ TurnFailed
       => /\ run.shown # <<>>
          /\ LastShown.kind \in ErrorKinds
          /\ ~busy
          /\ run.active = 0
  /\ (TurnStarted /\ run.got # <<>>
        /\ \/ Len(run.got) = MAX_RETRIES + 1
           \/ ~Retried(run.got[Len(run.got)]))
       => run.pc = "idle"
  /\ (TurnStarted /\ busy) => run.pc # "idle"

\* A turn failed on the relay's answer to an upstream body without a reply,
\* which came to a retry.
C24_Witness ==
  /\ TurnFailed
  /\ run.got = <<429, 500>>
  /\ LastShown.kind = "backendError"
  /\ LastShown.body.error = Text("No reply received from AI")
  /\ ~busy

\* C33: the requests issued for one turn, its first attempt and every
\* retry, carry the same message, the same conversation and the same
\* userName, whatever the user did with the name between two attempts.
C33_AttemptsCarryTheSameRequest ==
  \A i, j \in DOMAIN run.sent :
    /\ run.sent[i].message = run.sent[j].message
    /\ run.sent[i].conversation = run.sent[j].conversation
    /\ run.sent[i].userName = run.sent[j].userName

\* The turns of a transcript after its system turn go user, assistant,
\* user, ... in turn.
Alternates(q) ==
  \A i \in 2..Len(q) : q[i].role = IF i % 2 = 0 THEN "user" ELSE "assistant"

\* C34: after any turns, failed ones among them, the transcript after its
\* system turn alternates user, assistant, user, ..., without two user turns
\* in a row, and so does the conversation of every request sent to the relay.
C34_TurnsAlternate ==
  /\ Alternates(conversation)
  /\ \A k \in DOMAIN run.sent : Alternates(run.sent[k].conversation.a)

\* C32: whatever the page did since it loaded (startChat, changeName,
\* saveMemory, sendMessage with any outcome, a reload), the transcript is
\* not empty, its first element is the system turn built from the name the
\* memory holds now, and no other element is a system turn.
C32_OneSystemTurnOfTheCurrentName ==
  /\ Len(conversation) >= 1
  /\ conversation[1] = Turn("system", Tpl("clientPrompt", memory.name))
  /\ \A i \in 2..Len(conversation) : conversation[i].role \in {"user", "assistant"}

\* saveMemory fell back to the default name after a turn that was taken
\* under a submitted name and got its reply.
C32_Witness ==
  /\ run.named
  /\ Len(conversation) = 3
  /\ conversation[3].role = "assistant"
  /\ memory.name = "Guest"
  /\ stored = Str("Guest")
  /\ conversation[1] = Turn("system", Tpl("clientPrompt", "Guest"))

\* A new turn starts in the step.
StartsTurn == run'.turns > run.turns

\* C35: a call of startChat or of saveMemory changes at most the first
\* element of the transcript: the transcript keeps its length and every
\* turn after the first stays, in its place; and the first request of the
\* next turn carries all of them, under the system turn and the userName of
\* the name the memory holds then.
C35_NameEventsKeepTheTurns ==
  [][/\ (StartChat \/ SaveMemory) =>
          /\ Len(conversation') = Len(conversation)
          /\ Rest(conversation') = Rest(conversation)
     /\ StartsTurn =>
          /\ Rest(run'.sent[1].conversation.a) =
               Append(Rest(conversation), Turn("user", Text(run'.user)))
          /\ run'.sent[1].conversation.a[1] =
               Turn("system", Tpl("clientPrompt", memory.name))
          /\ run'.sent[1].userName = Str(memory.name)]_vars

\* The second turn goes out under the default name that saveMemory fell
\* back to, with the question and the reply of the first turn, which was
\* taken under a submitted name.
C35_Witness ==
  /\ run.turns = 2
  /\ run.named
  /\ stored = Str("Guest")
  /\ run.sent[1].userName = Str("Guest")
  /\ Len(run.sent[1].conversation.a) = 4
  /\ run.sent[1].conversation.a[1] = Turn("system", Tpl("clientPrompt", "Guest"))
  /\ run.sent[1].conversation.a[3].role = "assistant"

\* C36: the upstream completion calls made for one turn, over all the
\* attempts of the client and all the calls the relay makes for each of
\* them, are at most 4, whatever the upstream answers and whichever requests
\* and responses are lost.
C36_AtMostFourUpstreamCallsPerTurn ==
  /\ run.upstream <= MAX_RETRIES + 1
  /\ run.upstream <= Len(run.sent)

\* Four attempts were rate limited, each after one upstream call.
C36_Witness ==
  /\ run.pc = "idle"
  /\ run.got = <<429, 429, 429, 429>>
  /\ run.upstream = 4

(* ---------------------- properties of the server ---------------------- *)

\* The request carries an Origin that is not in the allow-list.
ForeignOrigin(q) == q.origin.t = "string" /\ q.origin.s \notin AllowedOrigins

\* C27: a POST /chat request whose Origin is not in the allow-list does
\* not reach the handler: no upstream call is made for it and the handler
\* sends no response, whatever its body.
C27_ForeignOriginIsRejected ==
  \A c \in Connections :
    (reqs[c].method = "POST" /\ ForeignOrigin(reqs[c]))
      => /\ reqs[c].h.pc = "idle"
         /\ reqs[c].h.calls = 0
         /\ reqs[c].h.nresp = 0

\* What the handler of POST /chat answers to a body under a key when its
\* upstream fetch, if it makes one, settles with ans.
Handled(body, key, ans) ==
  LET r == ChatReceive(body, key)
  IN IF r.pc = "fetching" THEN ChatAnswer(r, ans) ELSE r

\* The texts a response holds.
TextsOf(resp) ==
  {resp.error.arg, resp.details, resp.reply.s}
    \cup {resp.conversation[i].content.arg : i \in DOMAIN resp.conversation}

\* The text holds the key: it is the key, or the Authorization header.
HoldsKey(text, key) == text = key \/ text = Authorization(key).arg

\* C28: no response of POST /chat, of GET / or of GET /health holds the
\* configured key, and a response of POST /chat is the response the handler
\* gives under any other configured key to the same body and the same
\* upstream answer.
C28_KeyIsShielded ==
  KeyMissing(apiKey) \/
    /\ \A c \in Connections :
         reqs[c].h.pc = "done"
           => /\ \A text \in TextsOf(reqs[c].h.resp) : ~HoldsKey(text, apiKey)
              /\ ~HoldsKey(reqs[c].allowOrigin.s, apiKey)
              /\ \A key \in ServerKeys \ {""} :
                   Handled(reqs[c].body, key, reqs[c].h.ans).resp = reqs[c].h.resp
    /\ ~HoldsKey(probe.payload.arg, apiKey)
    /\ ~HoldsKey(probe.timestamp, apiKey)

\* The upstream refused the call made with the second key, and the relay
\* forwarded its answer.
C28_Witness ==
  /\ apiKey = "sk-or-v1-other"
  /\ reqs["c1"].h.pc = "done"
  /\ reqs["c1"].h.auth = Authorization("sk-or-v1-other")
  /\ reqs["c1"].h.resp.status = 503
  /\ probe.path = "/health"

\* The payload of the endpoint at a path.
LivenessPayload(path) ==
  IF path = "/" THEN Text("Backend is running") ELSE Text("OK")

\* C29: GET / and GET /health answer 200 with their payload in every state
\* of the server, a missing key included; answering them makes no upstream
\* call and changes neither the key nor any request in progress, and what
\* POST /chat answers is what it answers to its body, the key and its
\* upstream answer alone.
C29_HealthEndpointsArePure ==
  /\ [](probe # NoProbe
         => /\ probe.path \in {"/", "/health"}
            /\ probe.status = 200
            /\ probe.payload = LivenessPayload(probe.path)
            /\ probe.path = "/" <=> probe.timestamp \in Timestamps)
  /\ [][probe' # probe => (reqs' = reqs /\ apiKey' = apiKey)]_vars
  /\ [](\A c \in Connections :
          reqs[c].h.pc = "done"
            => reqs[c].h.resp =
                 Handled(reqs[c].body, apiKey, reqs[c].h.ans).resp)

\* GET / was answered by a server without a key, which has refused a chat
\* request and has answered a preflight.
C29_Witness ==
  /\ probe.path = "/"
  /\ probe.status = 200
  /\ apiKey = ""
  /\ reqs["c1"].h.resp.error = Text("API key not configured")
  /\ reqs["c2"].method = "OPTIONS"

\* The turns a request may find in its transcript: those of its own
\* conversation, its own message, the system turn the relay makes for its
\* own userName and the reply of its own upstream answer.
OwnTurns(q) ==
  LET b == q.body
  IN {InboundTurns(b)[i] : i \in DOMAIN InboundTurns(b)}
       \cup {Turn("user", Text(b.message.s)),
             Turn("system", Tpl("serverPrompt", b.userName.s)),
             Turn("system", Tpl("serverPrompt", "Guest")),
             Turn("assistant", Text(q.h.ans.reply.s))}

\* C30: however the requests of two connections interleave, the transcript a
\* request sends upstream and the conversation it returns hold turns of
\* that request alone, and its response is what the handler answers to its
\* own body, the key and its own upstream answer.
C30_RequestsAreIndependent ==
  \A c \in Connections :
    LET q == reqs[c]
    IN /\ \A i \in DOMAIN q.h.full : q.h.full[i] \in OwnTurns(q)
       /\ \A i \in DOMAIN q.h.resp.conversation :
            q.h.resp.conversation[i] \in OwnTurns(q)
       /\ q.h.pc = "done"
            => /\ q.h.resp = Handled(q.body, apiKey, q.h.ans).resp
               /\ q.h.full = Handled(q.body, apiKey, q.h.ans).full

\* Two requests with different messages were both answered with a reply.
C30_Witness ==
  /\ reqs["c1"].h.pc = "done"
  /\ reqs["c2"].h.pc = "done"
  /\ reqs["c1"].h.resp.status = 200
  /\ reqs["c2"].h.resp.status = 200
  /\ reqs["c1"].body.message = Str("m1")
  /\ reqs["c2"].body.message = Str("m2")
  /\ Len(reqs["c1"].h.resp.conversation) = 3
  /\ Len(reqs["c2"].h.resp.conversation) = 5

(* ---------------------- properties of the drawer ---------------------- *)

\* C37: whatever the order of the clicks on the settings button, the
\* backdrop and the close button, of Escape, of the resize events and of
\* the transitionend and timer callbacks that wait, the backdrop is
\* displayed whenever the side drawer is open: no hide callback that an
\* earlier closeDrawer scheduled hides the backdrop of a drawer opened since.
C37_OpenDrawerShowsBackdrop == drawer.open => drawer.display = "block"

====
